---- MODULE Spec2Model ----
(***************************************************************************)
(* A model of the microstellar client facade (microstellar.go): every      *)
(* mutating facade operation creates one Tx and drives it through          *)
(* Build, Sign, Submit and Err.  The Tx pipeline, Payment and Asset live   *)
(* in files of the package that are not part of microstellar.go; they are  *)
(* modelled from the package's specification (sections 3, 4.1 and 7).      *)
(***************************************************************************)
EXTENDS Integers, Sequences, FiniteSets, TLC

\* ------------------------------------------------------------------ bounds
MaxSigners == 2    \* longest "signers ...string" list a caller passes
MaxCalls == 2      \* facade calls (Tx instances) in one behaviour

\* ------------------------------------------------------------- key material
\* A seed is a private key, an address a public key (microstellar.go:9).
Seeds == {"SA", "SB"}
Addresses == {"GA", "GB", "GC"}

\* keypair derivation: the address of a seed.
AddrOf(seed) == CASE seed = "SA" -> "GA" [] seed = "SB" -> "GB" [] OTHER -> "XX"

\* The account an address-or-seed string names ("XX" when it names none).
AccountOf(addressOrSeed) ==
    IF addressOrSeed \in Seeds THEN AddrOf(addressOrSeed)
    ELSE IF addressOrSeed \in Addresses THEN addressOrSeed
    ELSE "XX"

\* The signature a seed produces: it carries the signer's public key.
SigOf(seed) == [signer |-> AddrOf(seed), by |-> seed]

\* Amounts are decimal strings; AmountValue parses them to 1/10 units.
Amounts == {"1.5", "0", "-1"}
AmountValue(amount) ==
    CASE amount = "1.5" -> 15 [] amount = "0" -> 0 [] amount = "-1" -> -10 [] OTHER -> 0

\* ------------------------------------------------------------------- Asset
NativeAsset == [Code |-> "", Issuer |-> ""]
CreditUSD == [Code |-> "USD", Issuer |-> "GI"]
NoCodeAsset == [Code |-> "", Issuer |-> "GI"]
Assets == {NativeAsset, CreditUSD, NoCodeAsset}

\* Asset.IsNative(): code == "" and issuer == "".
IsNative(asset) == asset.Code = "" /\ asset.Issuer = ""

\* ----------------------------------------------------------------- Payment
MemoTypes == {"MemoNone", "MemoText", "MemoID"}

\* NewPayment(source, target, amount): a native payment, no memo, no signers.
NewPayment(sourceSeed, targetAddress, amount) ==
    [sourceSeed |-> sourceSeed, targetAddress |-> targetAddress, amount |-> amount,
     asset |-> NativeAsset, memoType |-> "MemoNone", memoText |-> "", memoID |-> 0,
     signerSeeds |-> <<>>]

\* ------------------------------------------- operation-builder collaborator
Destination(a) == [type |-> "Destination", AddressOrSeed |-> a]
NativeAmount(a) == [type |-> "NativeAmount", Amount |-> a]
CreditAmount(code, issuer, a) ==
    [type |-> "CreditAmount", Code |-> code, Issuer |-> issuer, Amount |-> a]
MemoTextMut(v) == [type |-> "MemoText", Text |-> v]
MemoIDMut(v) == [type |-> "MemoID", ID |-> v]
CreateAccountOp(muts) == [type |-> "CreateAccount", muts |-> muts]
PaymentOp(muts) == [type |-> "Payment", muts |-> muts]
Limit(l) == [type |-> "Limit", Amount |-> l]
TrustOp(code, issuer, opts) ==
    [type |-> "Trust", Code |-> code, Issuer |-> issuer, opts |-> opts]
RemoveTrustOp(code, issuer) == [type |-> "RemoveTrust", Code |-> code, Issuer |-> issuer]
MasterWeightOp(w) == [type |-> "MasterWeight", Weight |-> w]
AddSignerOp(a, w) == [type |-> "AddSigner", Address |-> a, Weight |-> w]
RemoveSignerOp(a) == [type |-> "RemoveSigner", Address |-> a]
SetThresholdsOp(l, m, h) == [type |-> "SetThresholds", Low |-> l, Medium |-> m, High |-> h]

\* sourceAccount(addressOrSeed): the source-account mutator handed to Build.
sourceAccount(addressOrSeed) == [type |-> "SourceAccount", AddressOrSeed |-> addressOrSeed]

IsMemo(m) == m.type \in {"MemoText", "MemoID"}

\* An amount-carrying mutator of an operation is malformed when the amount is
\* not positive or a credit asset has no code.
BadAmountMut(m) ==
    \/ m.type = "NativeAmount" /\ AmountValue(m.Amount) <= 0
    \/ m.type = "CreditAmount" /\ (AmountValue(m.Amount) <= 0 \/ m.Code = "")

\* An operation parameter is malformed.
MalformedMut(m) ==
    \/ m.type \in {"CreateAccount", "Payment"}
         /\ \E i \in 1..Len(m.muts) : BadAmountMut(m.muts[i])
    \/ m.type \in {"Trust", "RemoveTrust"} /\ m.Code = ""

\* ---------------------------------------------------------------- errors
NoErr == [stage |-> "none", kind |-> "nil"]
BuildError(kind) == [stage |-> "build", kind |-> kind]
SignError(kind) == [stage |-> "sign", kind |-> kind]
SubmitError(kind) == [stage |-> "submit", kind |-> kind]

\* ------------------------------------------------------------------- Tx
FakeNetwork == "fake"

\* NewTx(networkName): a fresh pipeline; id names the instance.
NewTx(networkName, id) ==
    [id |-> id, networkName |-> networkName, fake |-> (networkName = FakeNetwork),
     built |-> FALSE, signed |-> FALSE, submitted |-> FALSE,
     source |-> "", seq |-> 0, ops |-> <<>>, signatures |-> <<>>,
     err |-> NoErr, io |-> <<>>]

NoTx == NewTx("", 0)

\* Tx.Build(sourceAccount, muts...) against the ledger's sequence numbers.
TxBuild(t, src, muts, seqs) ==
    IF t.err # NoErr THEN t
    ELSE IF t.built THEN [t EXCEPT !.err = BuildError("already built")]
    ELSE IF t.fake
      THEN [t EXCEPT !.built = TRUE, !.source = src.AddressOrSeed, !.ops = muts]
    ELSE IF AccountOf(src.AddressOrSeed) = "XX"
      THEN [t EXCEPT !.err = BuildError("source")]
    ELSE IF AccountOf(src.AddressOrSeed) \notin DOMAIN seqs
      THEN [t EXCEPT !.err = BuildError("source"), !.io = Append(@, "sequence")]
    ELSE IF \E i \in 1..Len(muts) : MalformedMut(muts[i])
      THEN [t EXCEPT !.err = BuildError("parameter"), !.io = Append(@, "sequence")]
    ELSE [t EXCEPT !.built = TRUE, !.source = AccountOf(src.AddressOrSeed),
                   !.seq = seqs[AccountOf(src.AddressOrSeed)] + 1,
                   !.ops = muts, !.io = Append(@, "sequence")]

\* Tx.Sign(keys...)
TxSign(t, keys) ==
    IF t.err # NoErr THEN t
    ELSE IF ~t.built THEN [t EXCEPT !.err = SignError("not built")]
    ELSE IF t.fake THEN [t EXCEPT !.signed = TRUE]
    ELSE IF \E i \in 1..Len(keys) : keys[i] \notin Seeds
      THEN [t EXCEPT !.err = SignError("key")]
    ELSE [t EXCEPT !.signed = TRUE,
                   !.signatures = @ \o [i \in 1..Len(keys) |-> SigOf(keys[i])]]

\* What the network answers to a submission.
Outcomes == {"accepted", "rejected", "unreachable"}

\* Tx.Submit(), the network answering outcome.
TxSubmit(t, outcome) ==
    IF t.err # NoErr THEN t
    ELSE IF ~t.built \/ ~t.signed THEN [t EXCEPT !.err = SubmitError("not signed")]
    ELSE IF t.fake THEN [t EXCEPT !.submitted = TRUE]
    ELSE IF outcome = "accepted"
      THEN [t EXCEPT !.submitted = TRUE, !.io = Append(@, "submit")]
    ELSE [t EXCEPT !.submitted = TRUE, !.err = SubmitError(outcome),
                   !.io = Append(@, "submit")]

\* Tx.Err()
TxErr(t) == t.err

\* ------------------------------------------------------------ MicroStellar
\* A handle that takes the test network for the fake one as well.
NewFakeOnTest(networkName) ==
    [networkName |-> networkName, fake |-> (networkName \in {"fake", "test"})]

\* New(networkName): the handle.
New(networkName) == [networkName |-> networkName, fake |-> (networkName = "fake")]

\* A signer resolution that always signs with the primary parameter as well.
SignKeysWithPrimary(sourceSeed, signers) == <<sourceSeed>> \o signers

\* A signer resolution without the fallback to the primary parameter.
SignKeysListOnly(sourceSeed, signers) == signers

\* The signer resolution every mutating operation applies before Submit:
\* if len(signers) > 0 { tx.Sign(signers...) } else { tx.Sign(sourceSeed) }
SignKeys(sourceSeed, signers) ==
    IF Len(signers) > 0 THEN signers ELSE <<sourceSeed>>

\* FundAccount: the create-account operation handed to Build.
FundAccountMuts(address, amount) ==
    <<CreateAccountOp(<<Destination(address), NativeAmount(amount)>>)>>

\* Payment mutators that leave the amount out.
PaymentMutsNoAmount(payment) == <<Destination(payment.targetAddress)>>

\* Payment mutators that always carry a native amount.
PaymentMutsAlwaysNative(payment) ==
    <<Destination(payment.targetAddress), NativeAmount(payment.amount)>>

\* Pay: paymentMuts, the destination followed by the native or credit amount.
PaymentMuts(payment) ==
    <<Destination(payment.targetAddress)>> \o
    (IF IsNative(payment.asset)
       THEN <<NativeAmount(payment.amount)>>
       ELSE <<CreditAmount(payment.asset.Code, payment.asset.Issuer, payment.amount)>>)

\* Pay: the switch on payment.memoType.
MemoMuts(payment) ==
    CASE payment.memoType = "MemoText" -> <<MemoTextMut(payment.memoText)>>
      [] payment.memoType = "MemoID" -> <<MemoIDMut(payment.memoID)>>
      [] OTHER -> <<>>

\* Transaction mutators with the memo appended after the payment operation.
PayTxMutsMemoLast(payment) == <<PaymentOp(PaymentMuts(payment))>> \o MemoMuts(payment)

\* Pay: txMuts, the memo (if any) and then the payment operation.
PayTxMuts(payment) == MemoMuts(payment) \o <<PaymentOp(PaymentMuts(payment))>>

\* A trust operation that always carries the limit string.
CreateTrustLineMutsAlwaysLimit(asset, limit) ==
    <<TrustOp(asset.Code, asset.Issuer, <<Limit(limit)>>)>>

\* CreateTrustLine: the trust operation, unlimited when limit == "".
CreateTrustLineMuts(asset, limit) ==
    IF limit = ""
      THEN <<TrustOp(asset.Code, asset.Issuer, <<>>)>>
      ELSE <<TrustOp(asset.Code, asset.Issuer, <<Limit(limit)>>)>>

RemoveTrustLineMuts(asset) == <<RemoveTrustOp(asset.Code, asset.Issuer)>>
SetMasterWeightMuts(weight) == <<MasterWeightOp(weight)>>
AddSignerMuts(signerAddress, signerWeight) == <<AddSignerOp(signerAddress, signerWeight)>>
RemoveSignerMuts(signerAddress) == <<RemoveSignerOp(signerAddress)>>
SetThresholdsMuts(low, medium, high) == <<SetThresholdsOp(low, medium, high)>>

\* A statement order that submits before it signs.
NextStageSubmitFirst(stage) ==
    CASE stage = "build" -> "submit"
      [] stage = "submit" -> "sign"
      [] stage = "sign" -> "err"
      [] OTHER -> "done"

\* The statement order of a mutating operation after NewTx:
\* tx.Build(...); tx.Sign(...); tx.Submit(); return tx.Err()
NextStage(stage) ==
    CASE stage = "build" -> "sign"
      [] stage = "sign" -> "submit"
      [] stage = "submit" -> "err"
      [] OTHER -> "done"

\* A return that drops the pipeline's error.
FacadeResultNil(t) == NoErr

\* A return that wraps the pipeline's error.
FacadeResultWrapped(t) ==
    IF TxErr(t) = NoErr THEN NoErr ELSE [stage |-> "facade", kind |-> TxErr(t).stage]

\* return tx.Err()
FacadeResult(t) == TxErr(t)

\* ----------------------------------------------------------------- Account
NoAccount == [Address |-> "nil", Sequence |-> -1, NativeBalance |-> -1]
NoHorizon == [AccountID |-> "nil", Sequence |-> -1, Balance |-> -1]

\* newAccount(): the zero-valued account synthesized on a fake client.
newAccount == [Address |-> "", Sequence |-> 0, NativeBalance |-> 0]

\* newAccountFromHorizon(account): the snapshot of a loaded ledger account.
newAccountFromHorizon(account) ==
    [Address |-> account.AccountID, Sequence |-> account.Sequence,
     NativeBalance |-> account.Balance]

\* The failures of the network's account endpoint.
NotFoundError == [stage |-> "load", kind |-> "not found"]
TransportError == [stage |-> "load", kind |-> "unreachable"]

\* A LoadAccount that hands back a synthesized account together with the error.
LoadAccountResultBoth(m, address, answer) ==
    IF m.fake \/ answer.err # NoErr
      THEN [account |-> newAccount, err |-> answer.err,
            methods |-> <<>>, io |-> <<>>, network |-> m.networkName]
      ELSE [account |-> newAccountFromHorizon(answer.account), err |-> NoErr,
            methods |-> <<"GetClient">>, io |-> <<"load">>, network |-> m.networkName]

\* LoadAccount(address), the network answering answer: the account and error
\* returned, the methods invoked on the Tx it creates, and its network I/O.
LoadAccountResult(m, address, answer) ==
    IF m.fake
      THEN [account |-> newAccount, err |-> NoErr,
            methods |-> <<>>, io |-> <<>>, network |-> m.networkName]
    ELSE IF answer.err # NoErr
      THEN [account |-> NoAccount, err |-> answer.err,
            methods |-> <<"GetClient">>, io |-> <<"load">>, network |-> m.networkName]
    ELSE [account |-> newAccountFromHorizon(answer.account), err |-> NoErr,
          methods |-> <<"GetClient">>, io |-> <<"load">>, network |-> m.networkName]

\* The native amount an operation moves out of the source account.
NativeValue(m) ==
    IF m.type \in {"Payment", "CreateAccount"}
      THEN IF Len(m.muts) >= 2 /\ m.muts[2].type = "NativeAmount"
             THEN AmountValue(m.muts[2].Amount) ELSE 0
      ELSE 0

\* The account an operation pays native amounts to ("XX" when none).
NativeTarget(m) ==
    IF m.type = "Payment" /\ NativeValue(m) # 0 THEN AccountOf(m.muts[1].AddressOrSeed)
    ELSE "XX"

RECURSIVE ApplyOps(_, _, _)
\* The balances after the operations ops of an accepted envelope from source.
ApplyOps(b, source, ops) ==
    IF ops = <<>> THEN b
    ELSE LET m == Head(ops)
             v == NativeValue(m)
             debited == [b EXCEPT ![source] = @ - v]
             credited == IF NativeTarget(m) \in DOMAIN b
                           THEN [debited EXCEPT ![NativeTarget(m)] = @ + v]
                           ELSE debited
         IN  ApplyOps(credited, source, Tail(ops))

\* ------------------------------------------------------------------ inputs
NetworkNames == {"fake", "test", "public"}
Primaries == {"SA", "GA", "GC", "XX"}
SignerKeys == {"SA", "SB", "GA"}
SignerLists == UNION {[1..n -> SignerKeys] : n \in 0..MaxSigners}
Limits == {"", "1000", "0"}
Weights == {0, 1}
Payments ==
    {[sourceSeed |-> s, targetAddress |-> "GB", amount |-> a, asset |-> x,
      memoType |-> mt, memoText |-> "hi", memoID |-> 42, signerSeeds |-> sg] :
        s \in Primaries, a \in Amounts, x \in Assets, mt \in MemoTypes, sg \in SignerLists}

LoadAddresses == {"GA", "GC"}
InitialBalance == 100

Callers == {1, 2}
Pending == [stage |-> "pending", kind |-> "nil"]
NoCall == [op |-> "none"]
NoLoad == [address |-> "none"]

\* ------------------------------------------------------------------- state
VARIABLES
    ms,        \* the MicroStellar handle
    seqs,      \* the ledger: sequence number of every existing account
    pc,        \* each caller's position in its facade call
    call,      \* each caller's operation and arguments
    tx,        \* each caller's Tx
    trace,     \* each caller's method calls on its Tx, with arguments
    ret,       \* each caller's returned error
    txCalls,   \* per Tx instance, the methods invoked on it
    nextTx,    \* the next Tx instance to be created
    bals,      \* the ledger: native balance of every existing account
    heard,     \* each caller's ledger responses during its facade call
    loaded,    \* each caller's last LoadAccount call and its result
    snap       \* per address, the snapshot loaded since the last accepted transaction

vars == <<ms, seqs, pc, call, tx, trace, ret, txCalls, nextTx, bals, heard, loaded, snap>>

\* The state after New(networkName), with the callers in active ready to call.
InitWith(active) ==
    /\ ms \in {New(n) : n \in NetworkNames}
    /\ seqs = [a \in {"GA", "GB"} |-> 0]
    /\ pc = [c \in Callers |-> IF c \in active THEN "idle" ELSE "off"]
    /\ call = [c \in Callers |-> NoCall]
    /\ tx = [c \in Callers |-> NoTx]
    /\ trace = [c \in Callers |-> <<>>]
    /\ ret = [c \in Callers |-> Pending]
    /\ txCalls = [i \in 1..MaxCalls |-> <<>>]
    /\ nextTx = 1
    /\ bals = [a \in {"GA", "GB"} |-> InitialBalance]
    /\ heard = [c \in Callers |-> <<>>]
    /\ loaded = [c \in Callers |-> NoLoad]
    /\ snap = [a \in LoadAddresses |-> NoAccount]

\* One caller uses the handle, one call after the other.
Init == InitWith({1})

\* A facade operation is entered: its mutators are constructed and
\* tx := NewTx(ms.networkName) is created.
\* A Tx created for a fixed live network instead of the handle's.
FreshTxTestnet(m, id) == NewTx("test", id)

\* One Tx instance shared by every call instead of a fresh one per call.
FreshTxShared(m, id) == NewTx(m.networkName, 1)

\* tx := NewTx(ms.networkName)
FreshTx(m, id) == NewTx(m.networkName, id)

\* A caller may enter a facade operation.
CanEnter(c) == pc[c] = "idle" /\ nextTx <= MaxCalls

Enter(c, op, sourceSeed, signers, muts, input) ==
    /\ call' = [call EXCEPT ![c] = [op |-> op, sourceSeed |-> sourceSeed,
                                    signers |-> signers, muts |-> muts, input |-> input]]
    /\ tx' = [tx EXCEPT ![c] = FreshTx(ms, nextTx)]
    /\ nextTx' = nextTx + 1
    /\ trace' = [trace EXCEPT ![c] = <<>>]
    /\ ret' = [ret EXCEPT ![c] = Pending]
    /\ pc' = [pc EXCEPT ![c] = "build"]
    /\ heard' = [heard EXCEPT ![c] = <<>>]
    /\ loaded' = [loaded EXCEPT ![c] = NoLoad]
    /\ UNCHANGED <<ms, seqs, txCalls, bals, snap>>

FundAccount(c) ==
    /\ CanEnter(c)
    /\ \E sourceSeed \in Primaries, amount \in Amounts, signers \in SignerLists :
        Enter(c, "FundAccount", sourceSeed, signers, FundAccountMuts("GC", amount),
              [address |-> "GC", amount |-> amount])

Pay(c) ==
    /\ CanEnter(c)
    /\ \E payment \in Payments :
        Enter(c, "Pay", payment.sourceSeed, payment.signerSeeds, PayTxMuts(payment),
              payment)

PayNative(c) ==
    /\ CanEnter(c)
    /\ \E sourceSeed \in Primaries, amount \in Amounts :
        LET payment == NewPayment(sourceSeed, "GB", amount) IN
        Enter(c, "PayNative", payment.sourceSeed, payment.signerSeeds,
              PayTxMuts(payment), payment)

CreateTrustLine(c) ==
    /\ CanEnter(c)
    /\ \E sourceSeed \in Primaries, asset \in Assets \ {NativeAsset}, limit \in Limits,
       signers \in SignerLists :
        Enter(c, "CreateTrustLine", sourceSeed, signers,
              CreateTrustLineMuts(asset, limit), [asset |-> asset, limit |-> limit])

RemoveTrustLine(c) ==
    /\ CanEnter(c)
    /\ \E sourceSeed \in Primaries, signers \in SignerLists :
        Enter(c, "RemoveTrustLine", sourceSeed, signers,
              RemoveTrustLineMuts(CreditUSD), [asset |-> CreditUSD])

SetMasterWeight(c) ==
    /\ CanEnter(c)
    /\ \E sourceSeed \in Primaries, weight \in Weights, signers \in SignerLists :
        Enter(c, "SetMasterWeight", sourceSeed, signers,
              SetMasterWeightMuts(weight), [weight |-> weight])

AddSigner(c) ==
    /\ CanEnter(c)
    /\ \E sourceSeed \in Primaries, signers \in SignerLists :
        Enter(c, "AddSigner", sourceSeed, signers,
              AddSignerMuts("GC", 1), [signerAddress |-> "GC", signerWeight |-> 1])

RemoveSigner(c) ==
    /\ CanEnter(c)
    /\ \E sourceSeed \in Primaries, signers \in SignerLists :
        Enter(c, "RemoveSigner", sourceSeed, signers,
              RemoveSignerMuts("GC"), [signerAddress |-> "GC"])

SetThresholds(c) ==
    /\ CanEnter(c)
    /\ \E sourceSeed \in Primaries, signers \in SignerLists :
        Enter(c, "SetThresholds", sourceSeed, signers,
              SetThresholdsMuts(1, 2, 3), [low |-> 1, medium |-> 2, high |-> 3])

\* One method call on the caller's Tx: t is the Tx after it.  The call is
\* recorded with its arguments and the error and network I/O it left.
Step(c, method, args, t) ==
    /\ tx' = [tx EXCEPT ![c] = t]
    /\ trace' = [trace EXCEPT ![c] =
                   Append(@, [m |-> method, args |-> args, err |-> t.err, io |-> t.io])]
    /\ txCalls' = [txCalls EXCEPT ![tx[c].id] = Append(@, method)]
    /\ pc' = [pc EXCEPT ![c] = NextStage(pc[c])]

\* A source account taken from the first signer when a signer list is given.
BuildSourceFirstSigner(sourceSeed, signers) ==
    IF Len(signers) > 0 THEN sourceAccount(signers[1]) ELSE sourceAccount(sourceSeed)

\* The source account handed to Build: sourceAccount(sourceSeed), whatever the signers.
BuildSource(sourceSeed, signers) == sourceAccount(sourceSeed)

\* tx.Build(sourceAccount(sourceSeed), muts...)
Build(c) ==
    /\ pc[c] = "build"
    /\ Step(c, "Build",
            <<BuildSource(call[c].sourceSeed, call[c].signers)>> \o call[c].muts,
            TxBuild(tx[c], BuildSource(call[c].sourceSeed, call[c].signers),
                    call[c].muts, seqs))
    /\ heard' = [heard EXCEPT ![c] = Append(@, seqs)]
    /\ UNCHANGED <<ms, seqs, call, ret, nextTx, bals, loaded, snap>>

\* tx.Sign(signers...) or tx.Sign(sourceSeed)
Sign(c) ==
    /\ pc[c] = "sign"
    /\ Step(c, "Sign", SignKeys(call[c].sourceSeed, call[c].signers),
            TxSign(tx[c], SignKeys(call[c].sourceSeed, call[c].signers)))
    /\ UNCHANGED <<ms, seqs, call, ret, nextTx, bals, heard, loaded, snap>>

\* The answers the network may give to the envelope of t: none when Submit
\* does not reach the network, no acceptance of a stale sequence number.
Answers(t) ==
    IF t.err # NoErr \/ t.fake \/ ~t.built \/ ~t.signed THEN {"none"}
    ELSE IF t.seq = seqs[t.source] + 1 THEN Outcomes
    ELSE Outcomes \ {"accepted"}

\* The ledger after the network answered outcome to the envelope of t.
Ledger(t, outcome) ==
    [seqs |-> IF outcome = "accepted" THEN [seqs EXCEPT ![t.source] = @ + 1] ELSE seqs,
     bals |-> IF outcome = "accepted" THEN ApplyOps(bals, t.source, t.ops) ELSE bals,
     snap |-> IF outcome = "accepted" THEN [a \in LoadAddresses |-> NoAccount] ELSE snap]

\* A Submit step that sends the envelope a second time when the first
\* submission failed.
SubmitRetry(c) ==
    /\ pc[c] = "submit"
    /\ \E outcome \in Answers(tx[c]) :
         LET t1 == TxSubmit(tx[c], outcome)
             t2 == IF t1.err.stage = "submit"
                     THEN TxSubmit([t1 EXCEPT !.err = NoErr], outcome) ELSE t1
         IN  /\ Step(c, "Submit", <<>>, t2)
             /\ seqs' = Ledger(tx[c], outcome).seqs
             /\ bals' = Ledger(tx[c], outcome).bals
             /\ snap' = Ledger(tx[c], outcome).snap
             /\ heard' = [heard EXCEPT ![c] = Append(@, outcome)]
    /\ UNCHANGED <<ms, call, ret, nextTx, loaded>>

\* tx.Submit(): an accepted envelope advances the source's sequence number.
Submit(c) ==
    /\ pc[c] = "submit"
    /\ \E outcome \in Answers(tx[c]) :
         /\ Step(c, "Submit", <<>>, TxSubmit(tx[c], outcome))
         /\ seqs' = Ledger(tx[c], outcome).seqs
         /\ bals' = Ledger(tx[c], outcome).bals
         /\ snap' = Ledger(tx[c], outcome).snap
         /\ heard' = [heard EXCEPT ![c] = Append(@, outcome)]
    /\ UNCHANGED <<ms, call, ret, nextTx, loaded>>

\* return tx.Err()
Return(c) ==
    /\ pc[c] = "err"
    /\ ret' = [ret EXCEPT ![c] = FacadeResult(tx[c])]
    /\ Step(c, "Err", <<>>, tx[c])
    /\ UNCHANGED <<ms, seqs, call, nextTx, bals, heard, loaded, snap>>

\* The caller has read the error; the Tx is discarded and the caller may call again.
Discard(c) ==
    /\ pc[c] = "done"
    /\ pc' = [pc EXCEPT ![c] = "idle"]
    /\ call' = [call EXCEPT ![c] = NoCall]
    /\ tx' = [tx EXCEPT ![c] = NoTx]
    /\ trace' = [trace EXCEPT ![c] = <<>>]
    /\ ret' = [ret EXCEPT ![c] = Pending]
    /\ heard' = [heard EXCEPT ![c] = <<>>]
    /\ UNCHANGED <<ms, seqs, txCalls, nextTx, bals, loaded, snap>>

\* The number of facade calls that have gone through their whole pipeline.
Completed == Cardinality({i \in 1..MaxCalls : txCalls[i] = <<"Build", "Sign", "Submit", "Err">>})

\* The ledger's account record as the network serves it.
HorizonAccount(address) ==
    [AccountID |-> address, Sequence |-> seqs[address], Balance |-> bals[address]]

\* The answers the network may give to a load of address: the account or
\* not-found, as the ledger has it, or a transport failure.
LoadAnswers(address) ==
    (IF address \in DOMAIN seqs
       THEN {[err |-> NoErr, account |-> HorizonAccount(address)]}
       ELSE {[err |-> NotFoundError, account |-> NoHorizon]})
    \cup {[err |-> TransportError, account |-> NoHorizon]}

\* A LoadAccount that leaves a mark on the ledger: the loaded account's
\* sequence number advances as if a transaction had been submitted.
LoadAccountAdvancing(c) ==
    /\ pc[c] = "idle"
    /\ \E address \in LoadAddresses :
         \E answer \in (IF ms.fake THEN {[err |-> NoErr, account |-> NoHorizon]}
                                   ELSE LoadAnswers(address)) :
            LET r == LoadAccountResult(ms, address, answer) IN
            /\ loaded' = [loaded EXCEPT ![c] =
                             [address |-> address, answer |-> answer, result |-> r,
                              prev |-> snap[address], seen |-> Completed]]
            /\ snap' = IF r.err = NoErr /\ r.account # NoAccount
                         THEN [snap EXCEPT ![address] = r.account]
                         ELSE snap
            /\ seqs' = IF ~ms.fake /\ answer.err = NoErr /\ seqs[address] < MaxCalls
                         THEN [seqs EXCEPT ![address] = @ + 1]
                         ELSE seqs
    /\ UNCHANGED <<ms, pc, call, tx, trace, ret, txCalls, nextTx, bals, heard>>

\* LoadAccount(address): a read; loaded keeps the call, its result, the
\* network's answer and the snapshot of the address taken before it.
LoadAccount(c) ==
    /\ pc[c] = "idle"
    /\ \E address \in LoadAddresses :
         \E answer \in (IF ms.fake THEN {[err |-> NoErr, account |-> NoHorizon]}
                                   ELSE LoadAnswers(address)) :
            LET r == LoadAccountResult(ms, address, answer) IN
            /\ loaded' = [loaded EXCEPT ![c] =
                             [address |-> address, answer |-> answer, result |-> r,
                              prev |-> snap[address], seen |-> Completed]]
            /\ snap' = IF r.err = NoErr /\ r.account # NoAccount
                         THEN [snap EXCEPT ![address] = r.account]
                         ELSE snap
    /\ UNCHANGED <<ms, seqs, pc, call, tx, trace, ret, txCalls, nextTx, bals, heard>>

Next ==
    \E c \in Callers :
        \/ FundAccount(c)
        \/ Pay(c)
        \/ PayNative(c)
        \/ CreateTrustLine(c)
        \/ RemoveTrustLine(c)
        \/ SetMasterWeight(c)
        \/ AddSigner(c)
        \/ RemoveSigner(c)
        \/ SetThresholds(c)
        \/ Build(c)
        \/ Sign(c)
        \/ Submit(c)
        \/ Return(c)
        \/ Discard(c)

Spec == Init /\ [][Next]_vars

\* ------------------------------------------------- concurrent callers, reads
\* The calls two concurrent callers choose from: every mutating operation,
\* with arguments that succeed and arguments that fail at each stage.
SampleCall(op, sourceSeed, signers, muts, input) ==
    [op |-> op, sourceSeed |-> sourceSeed, signers |-> signers, muts |-> muts,
     input |-> input]

SamplePayment ==
    [sourceSeed |-> "SA", targetAddress |-> "GB", amount |-> "1.5", asset |-> CreditUSD,
     memoType |-> "MemoText", memoText |-> "hi", memoID |-> 42, signerSeeds |-> <<>>]

SampleCalls ==
    { SampleCall("FundAccount", "SA", <<>>, FundAccountMuts("GC", "1.5"),
                 [address |-> "GC", amount |-> "1.5"]),
      SampleCall("Pay", SamplePayment.sourceSeed, SamplePayment.signerSeeds,
                 PayTxMuts(SamplePayment), SamplePayment),
      SampleCall("PayNative", "SA", <<>>, PayTxMuts(NewPayment("SA", "GB", "1.5")),
                 NewPayment("SA", "GB", "1.5")),
      SampleCall("PayNative", "SA", <<>>, PayTxMuts(NewPayment("SA", "GB", "0")),
                 NewPayment("SA", "GB", "0")),
      SampleCall("CreateTrustLine", "SA", <<>>, CreateTrustLineMuts(CreditUSD, ""),
                 [asset |-> CreditUSD, limit |-> ""]),
      SampleCall("RemoveTrustLine", "GC", <<"SA">>, RemoveTrustLineMuts(CreditUSD),
                 [asset |-> CreditUSD]),
      SampleCall("SetMasterWeight", "SA", <<>>, SetMasterWeightMuts(1), [weight |-> 1]),
      SampleCall("AddSigner", "GA", <<"SB">>, AddSignerMuts("GC", 1),
                 [signerAddress |-> "GC", signerWeight |-> 1]),
      SampleCall("RemoveSigner", "GA", <<>>, RemoveSignerMuts("GC"),
                 [signerAddress |-> "GC"]),
      SampleCall("SetThresholds", "SB", <<>>, SetThresholdsMuts(1, 2, 3),
                 [low |-> 1, medium |-> 2, high |-> 3]) }

\* A caller enters one of the sample calls.
Call(c) ==
    /\ CanEnter(c)
    /\ nextTx <= Cardinality(Callers)
    /\ \E k \in SampleCalls : Enter(c, k.op, k.sourceSeed, k.signers, k.muts, k.input)

NextConc ==
    \E c \in Callers :
        \/ Call(c)
        \/ Build(c)
        \/ Sign(c)
        \/ Submit(c)
        \/ Return(c)
        \/ Discard(c)
        \/ LoadAccount(c)

\* Both callers use the same handle at the same time.
InitConc == InitWith(Callers)

SpecConc == InitConc /\ [][NextConc]_vars

\* ------------------------------------------------------------- properties
Entered == {c \in Callers : pc[c] \in {"build", "sign", "submit", "err", "done"}}
AfterBuild == {c \in Callers : pc[c] \in {"sign", "submit", "err", "done"}}
AfterSign == {c \in Callers : pc[c] \in {"submit", "err", "done"}}
AfterSubmit == {c \in Callers : pc[c] \in {"err", "done"}}
Returned == {c \in Callers : pc[c] = "done"}

IsPay(c) == call[c].op \in {"Pay", "PayNative"}

\* The primary parameter and the signer list the caller passed.
PrimaryOf(c) == IF IsPay(c) THEN call[c].input.sourceSeed ELSE call[c].sourceSeed
ListOf(c) == IF IsPay(c) THEN call[c].input.signerSeeds ELSE call[c].signers

\* The keys the signer resolution policy selects.
PolicyKeys(c) == IF ListOf(c) # <<>> THEN ListOf(c) ELSE <<PrimaryOf(c)>>

\* C1: in every mutating operation the keys handed to Sign are exactly the
\* signer list, in order, when it is non-empty, and the primary parameter
\* alone when it is empty; the signatures on the envelope are exactly those
\* derived from these keys, in order (one signature for an empty list), and a
\* Tx on which Sign attached nothing carries no signature at all.
C1_SignerResolution ==
    \A c \in AfterSign :
        /\ trace[c][2].m = "Sign"
        /\ trace[c][2].args = PolicyKeys(c)
        /\ IF tx[c].signed /\ ~tx[c].fake
             THEN /\ Len(tx[c].signatures) = Len(PolicyKeys(c))
                  /\ \A i \in 1..Len(PolicyKeys(c)) :
                        tx[c].signatures[i] = SigOf(PolicyKeys(c)[i])
                  /\ ListOf(c) = <<>> => Len(tx[c].signatures) = 1
             ELSE tx[c].signatures = <<>>

\* AddSigner(addrA, addrC, 1, seedB) on a live network: signed by seedB only.
C1_Witness ==
    \E c \in Returned :
        /\ call[c].op = "AddSigner" /\ call[c].sourceSeed = "GA"
        /\ call[c].signers = <<"SB">>
        /\ tx[c].signatures = <<SigOf("SB")>>
        /\ ret[c] = NoErr

Pipeline == <<"Build", "Sign", "Submit", "Err">>
IsPrefix(s, t) == Len(s) <= Len(t) /\ \A i \in 1..Len(s) : s[i] = t[i]
StageIndex(stage) ==
    CASE stage = "build" -> 0 [] stage = "sign" -> 1 [] stage = "submit" -> 2
      [] stage = "err" -> 3 [] OTHER -> 4

\* C2: every mutating operation works on a Tx of its own, created by it, and
\* invokes on it Build, Sign, Submit, Err in this order, each exactly once: the
\* methods invoked on any Tx are a prefix of that sequence, a returned call
\* has invoked all four, and no Tx is used by two calls.
C2_PipelineOrder ==
    /\ \A i \in 1..MaxCalls :
          /\ IsPrefix(txCalls[i], Pipeline)
          /\ i >= nextTx => txCalls[i] = <<>>
          /\ (i < nextTx /\ \A c \in Entered : tx[c].id # i) => txCalls[i] = Pipeline
    /\ \A c \in Entered :
          /\ tx[c].id \in 1..(nextTx - 1)
          /\ Len(txCalls[tx[c].id]) = StageIndex(pc[c])
          /\ Len(trace[c]) = StageIndex(pc[c])
          /\ \A i \in 1..Len(trace[c]) : trace[c][i].m = txCalls[tx[c].id][i]
          /\ (tx[c].signed \/ tx[c].submitted) => txCalls[tx[c].id][1] = "Build"
    /\ \A c \in Returned : txCalls[tx[c].id] = Pipeline
    /\ \A c, d \in Entered : c # d => tx[c].id # tx[d].id

\* A second facade call has returned: both Tx instances went through the pipeline.
C2_Witness ==
    \E c \in Returned :
        /\ tx[c].id = 2
        /\ txCalls[1] = Pipeline /\ txCalls[2] = Pipeline
        /\ ~tx[c].fake /\ tx[c].submitted

HasSubmitIO(io) == \E i \in 1..Len(io) : io[i] = "submit"

\* C3: when Build fails (unresolved source account or malformed operation
\* parameter) the operation still calls Sign and Submit, but no signature is
\* attached, Sign and Submit add no network I/O, nothing is submitted, and the
\* error the operation returns is the error Build left.
C3_BuildFailure ==
    \A c \in AfterBuild :
        trace[c][1].err # NoErr =>
            /\ trace[c][1].err.stage = "build"
            /\ \/ AccountOf(PrimaryOf(c)) \notin DOMAIN seqs
               \/ \E i \in 1..Len(call[c].muts) : MalformedMut(call[c].muts[i])
            /\ tx[c].err = trace[c][1].err
            /\ tx[c].signatures = <<>> /\ ~tx[c].signed /\ ~tx[c].submitted
            /\ tx[c].io = trace[c][1].io /\ ~HasSubmitIO(tx[c].io)
            /\ c \in Returned =>
                  /\ ret[c] = trace[c][1].err
                  /\ txCalls[tx[c].id] = Pipeline

\* Pay from an unresolved source with a signer list: the build error is returned.
C3_Witness ==
    \E c \in Returned :
        /\ call[c].op = "Pay" /\ call[c].sourceSeed = "GC" /\ call[c].signers = <<"SA">>
        /\ ret[c] = BuildError("source")
        /\ trace[c][2].m = "Sign" /\ trace[c][3].m = "Submit"
        /\ tx[c].signatures = <<>>

\* C4: on a Tx that was built, Sign fails exactly when one of the keys selected
\* by the signer resolution (the list, or the primary parameter when the list
\* is empty) is not a seed; Submit then performs no network I/O and the
\* operation returns the sign error.
C4_SignFailure ==
    \A c \in AfterSign :
        /\ (trace[c][1].err = NoErr /\ ~tx[c].fake) =>
              (trace[c][2].err # NoErr
                  <=> \E i \in 1..Len(PolicyKeys(c)) : PolicyKeys(c)[i] \notin Seeds)
        /\ (trace[c][1].err = NoErr /\ trace[c][2].err # NoErr) =>
              /\ trace[c][2].err.stage = "sign"
              /\ tx[c].err = trace[c][2].err
              /\ tx[c].io = trace[c][2].io /\ ~HasSubmitIO(tx[c].io)
              /\ ~tx[c].submitted /\ tx[c].signatures = <<>>
              /\ c \in Returned => ret[c] = trace[c][2].err

\* RemoveSigner(addrA, addrC) with no signer list: the address cannot sign.
C4_Witness ==
    \E c \in Returned :
        /\ call[c].op = "RemoveSigner" /\ call[c].sourceSeed = "GA"
        /\ call[c].signers = <<>>
        /\ trace[c][1].err = NoErr
        /\ ret[c] = SignError("key")

\* The error of the first stage that failed, NoErr when none did.
FirstFailure(c) ==
    IF trace[c][1].err # NoErr THEN trace[c][1].err
    ELSE IF trace[c][2].err # NoErr THEN trace[c][2].err
    ELSE trace[c][3].err

\* C5: the error a mutating operation returns is the pipeline's terminal
\* error, unchanged: the error of the first of Build, Sign, Submit that
\* failed, carrying that stage, and nil exactly when all three succeeded.
C5_TerminalError ==
    \A c \in Returned :
        /\ ret[c] = tx[c].err
        /\ ret[c] = FirstFailure(c)
        /\ trace[c][1].err # NoErr => ret[c].stage = "build"
        /\ (trace[c][1].err = NoErr /\ trace[c][2].err # NoErr) => ret[c].stage = "sign"
        /\ (trace[c][2].err = NoErr /\ trace[c][3].err # NoErr) => ret[c].stage = "submit"
        /\ ret[c] = NoErr <=> (tx[c].built /\ tx[c].signed /\ tx[c].submitted
                                 /\ trace[c][3].err = NoErr)

\* SetMasterWeight whose envelope the ledger rejects: the rejection is returned.
C5_Witness ==
    \E c \in Returned :
        /\ call[c].op = "SetMasterWeight"
        /\ trace[c][2].err = NoErr
        /\ HasSubmitIO(tx[c].io)
        /\ ret[c] = SubmitError("rejected")

ValidPayNative(p) ==
    p.sourceSeed \in Seeds /\ p.targetAddress \in Addresses /\ AmountValue(p.amount) > 0

\* C6: PayNative on a client made for the network name "fake" performs no
\* network I/O at any stage, and with a valid source seed, target address and
\* positive amount it returns no error.
C6_FakePayNative ==
    \A c \in Entered :
        (call[c].op = "PayNative" /\ ms.networkName = "fake") =>
            /\ tx[c].io = <<>>
            /\ \A i \in 1..Len(trace[c]) : trace[c][i].io = <<>>
            /\ (c \in Returned /\ ValidPayNative(call[c].input)) => ret[c] = NoErr

C6_Witness ==
    \E c \in Returned :
        /\ call[c].op = "PayNative" /\ ms.networkName = "fake"
        /\ call[c].input = NewPayment("SA", "GB", "1.5")
        /\ tx[c].io = <<>> /\ tx[c].submitted
        /\ ret[c] = NoErr

IsPaymentOp(m) == m.type = "Payment"

\* C8: the mutators Pay hands to Build hold exactly one payment operation; its
\* destination is the payment's target address, and its amount is a native
\* amount of the payment's amount when the asset is native and otherwise a
\* credit amount of the asset's code and issuer and the payment's amount.
C8_PaymentOperation ==
    \A c \in AfterBuild :
        IsPay(c) =>
            LET p == call[c].input
                ops == SelectSeq(trace[c][1].args, IsPaymentOp)
            IN  /\ Len(ops) = 1
                /\ Len(ops[1].muts) = 2
                /\ ops[1].muts[1] = [type |-> "Destination", AddressOrSeed |-> p.targetAddress]
                /\ IF IsNative(p.asset)
                     THEN ops[1].muts[2] = [type |-> "NativeAmount", Amount |-> p.amount]
                     ELSE ops[1].muts[2] =
                            [type |-> "CreditAmount", Code |-> p.asset.Code,
                             Issuer |-> p.asset.Issuer, Amount |-> p.amount]
                /\ tx[c].built => SelectSeq(tx[c].ops, IsPaymentOp) = ops

C8_Witness ==
    \E c \in AfterBuild :
        /\ call[c].op = "Pay" /\ call[c].input.asset = CreditUSD
        /\ tx[c].built /\ ~tx[c].fake
        /\ tx[c].ops[Len(tx[c].ops)].muts[2] =
              [type |-> "CreditAmount", Code |-> "USD", Issuer |-> "GI", Amount |-> "1.5"]

\* C9: the mutators Pay hands to Build are, after the source account, the
\* memo mutator (the text for MemoText, the id for MemoID, none for MemoNone)
\* followed by the payment operation, which is last; Build receives them in
\* the order constructed and a built envelope keeps that order.
C9_MemoOrder ==
    \A c \in AfterBuild :
        IsPay(c) =>
            LET p == call[c].input
                args == trace[c][1].args
                muts == Tail(args)
                memos == SelectSeq(muts, IsMemo)
            IN  /\ args[1] = [type |-> "SourceAccount", AddressOrSeed |-> p.sourceSeed]
                /\ muts = call[c].muts
                /\ Len(memos) = (IF p.memoType \in {"MemoText", "MemoID"} THEN 1 ELSE 0)
                /\ p.memoType = "MemoText" => memos[1] = [type |-> "MemoText", Text |-> p.memoText]
                /\ p.memoType = "MemoID" => memos[1] = [type |-> "MemoID", ID |-> p.memoID]
                /\ Len(muts) = Len(memos) + 1
                /\ muts[Len(muts)].type = "Payment"
                /\ memos # <<>> => muts[1] = memos[1]
                /\ tx[c].built => tx[c].ops = muts

C9_Witness ==
    \E c \in AfterBuild :
        /\ call[c].op = "Pay" /\ call[c].input.memoType = "MemoID"
        /\ tx[c].built /\ ~tx[c].fake
        /\ tx[c].ops[1] = [type |-> "MemoID", ID |-> 42]
        /\ tx[c].ops[2].type = "Payment"

BuildCalls(i) == Len(SelectSeq(txCalls[i], LAMBDA m : m = "Build"))

\* C10: CreateTrustLine hands Build one trust operation carrying the asset's
\* code and issuer; it has no limit exactly when the limit string is empty and
\* otherwise carries that string as its limit; Build is called exactly once.
C10_TrustLimit ==
    \A c \in AfterBuild :
        call[c].op = "CreateTrustLine" =>
            LET args == trace[c][1].args
                in == call[c].input
            IN  /\ Len(args) = 2
                /\ args[2].type = "Trust"
                /\ args[2].Code = in.asset.Code /\ args[2].Issuer = in.asset.Issuer
                /\ args[2].opts = <<>> <=> in.limit = ""
                /\ in.limit # "" => args[2].opts = <<[type |-> "Limit", Amount |-> in.limit]>>
                /\ BuildCalls(tx[c].id) = 1

C10_Witness ==
    \E c \in Returned :
        /\ call[c].op = "CreateTrustLine" /\ call[c].input.limit = ""
        /\ call[c].input.asset = CreditUSD
        /\ ~tx[c].fake /\ tx[c].ops = <<[type |-> "Trust", Code |-> "USD", Issuer |-> "GI", opts |-> <<>>]>>
        /\ ret[c] = NoErr

Count(seq, x) == Len(SelectSeq(seq, LAMBDA e : e = x))

\* The call of c went through Build and Sign and its submission failed.
SubmitFailed(c) ==
    c \in AfterSubmit /\ trace[c][2].err = NoErr /\ trace[c][3].err # NoErr

\* C11: one mutating operation sends its envelope to the network at most once
\* and builds at most once; when the submission is rejected or the network is
\* unreachable, that failure is what the Tx holds and what the operation
\* returns, after exactly one submission and one Build, and the source
\* account's sequence number is still the one Build saw.
C11_NoRetry ==
    \A c \in Entered :
        /\ Count(tx[c].io, "submit") <= 1
        /\ Count(tx[c].io, "sequence") <= 1
        /\ Count(txCalls[tx[c].id], "Submit") <= 1
        /\ Count(txCalls[tx[c].id], "Build") <= 1
        /\ SubmitFailed(c) =>
              /\ trace[c][3].err \in {SubmitError("rejected"), SubmitError("unreachable")}
              /\ trace[c][3].err.kind = heard[c][2]
              /\ tx[c].err = trace[c][3].err
              /\ Count(tx[c].io, "submit") = 1
              /\ Count(txCalls[tx[c].id], "Build") = 1
              /\ seqs[tx[c].source] = tx[c].seq - 1
              /\ c \in Returned =>
                    /\ ret[c] = trace[c][3].err
                    /\ txCalls[tx[c].id] = Pipeline

\* RemoveTrustLine whose submission finds the network unreachable.
C11_Witness ==
    \E c \in Returned :
        /\ call[c].op = "RemoveTrustLine"
        /\ ret[c] = SubmitError("unreachable")
        /\ Count(tx[c].io, "submit") = 1

\* C16: in every mutating operation the source account handed to Build is
\* the primary parameter (the payment's sourceSeed in Pay), with or without a
\* signer list and also when it is an address; the envelope's source is the
\* account that parameter names, never one taken from the signer list.
C16_SourceFromPrimary ==
    \A c \in AfterBuild :
        /\ trace[c][1].m = "Build"
        /\ trace[c][1].args[1] = [type |-> "SourceAccount", AddressOrSeed |-> PrimaryOf(c)]
        /\ tx[c].built =>
              tx[c].source = (IF tx[c].fake THEN PrimaryOf(c) ELSE AccountOf(PrimaryOf(c)))

\* AddSigner from an address, signed by another account's seed: the source
\* is the address, the signature the signer's.
C16_Witness ==
    \E c \in AfterSign :
        /\ call[c].op = "AddSigner" /\ call[c].sourceSeed = "GA"
        /\ call[c].signers = <<"SB">>
        /\ ~tx[c].fake /\ tx[c].built /\ tx[c].source = "GA"
        /\ tx[c].signatures = <<SigOf("SB")>>

Loaders == {c \in Callers : loaded[c] # NoLoad}

\* C12: LoadAccount returns an account or an error, never both and never
\* neither: on a fake client the zero-valued account, no error and no network
\* I/O; on a live client the network's failure (not found, or transport)
\* unchanged and no account, or the converted snapshot and no error.  It
\* invokes neither Build nor Sign nor Submit.
C12_LoadAccount ==
    \A c \in Loaders :
        LET r == loaded[c].result
            a == loaded[c].answer
        IN  /\ (r.account = NoAccount) <=> (r.err # NoErr)
            /\ ms.networkName = "fake" =>
                  /\ r.account = [Address |-> "", Sequence |-> 0, NativeBalance |-> 0]
                  /\ r.err = NoErr /\ r.io = <<>>
            /\ (ms.networkName # "fake" /\ a.err # NoErr) =>
                  /\ r.err = a.err /\ r.account = NoAccount
                  /\ a.err \in {NotFoundError, TransportError}
            /\ (ms.networkName # "fake" /\ a.err = NoErr) =>
                  /\ r.err = NoErr
                  /\ r.account = [Address |-> loaded[c].address,
                                  Sequence |-> a.account.Sequence,
                                  NativeBalance |-> a.account.Balance]
            /\ \A i \in 1..Len(r.methods) : r.methods[i] \notin {"Build", "Sign", "Submit"}

\* A load of an address that is not on the ledger.
C12_Witness ==
    \E c \in Loaders :
        /\ ms.networkName = "test" /\ loaded[c].address = "GC"
        /\ loaded[c].result.err = NotFoundError
        /\ loaded[c].result.account = NoAccount

AloneTx(c, n) ==
    LET t0 == NewTx(ms.networkName, tx[c].id)
        t1 == TxBuild(t0, [type |-> "SourceAccount", AddressOrSeed |-> PrimaryOf(c)],
                      call[c].muts, heard[c][1])
        t2 == TxSign(t1, PolicyKeys(c))
        t3 == TxSubmit(t2, heard[c][2])
    IN  CASE n = 0 -> t0 [] n = 1 -> t1 [] n = 2 -> t2 [] OTHER -> t3

\* C14: calls running at the same time on one handle each work on a Tx of
\* their own, and at every step the Tx of a call (operations, signatures,
\* error) and the error it returns are those of the same call run alone
\* against the ledger responses it heard.
C14_Independent ==
    \A c \in Entered :
        /\ \A d \in Entered \ {c} : tx[c].id # tx[d].id
        /\ tx[c] = AloneTx(c, StageIndex(pc[c]))
        /\ tx[c].built => tx[c].ops = call[c].muts
        /\ c \in Returned => ret[c] = TxErr(AloneTx(c, 3))

\* Two overlapping calls from addrA: caller 2 built before caller 1's envelope
\* was accepted, so its own submission is rejected; caller 1 is unaffected.
C14_Witness ==
    /\ Returned = {1, 2}
    /\ ms.networkName = "test"
    /\ tx[1].id = 1 /\ tx[2].id = 2
    /\ tx[1].source = "GA" /\ tx[2].source = "GA"
    /\ call[1].op # call[2].op
    /\ heard[2][1]["GA"] = 0 /\ seqs["GA"] = 1
    /\ ret[1] = NoErr
    /\ ret[2] = SubmitError("rejected")

\* The handle and every Tx and load agree on the network.
ConfigConsistent ==
    /\ ms.fake <=> (ms.networkName = "fake")
    /\ \A c \in Entered : tx[c].networkName = ms.networkName
    /\ \A c \in Loaders : loaded[c].result.network = ms.networkName

\* C15: after New(networkName), fake holds exactly when networkName is
\* "fake"; no step of any operation, failing ones and LoadAccount included,
\* changes the handle; every Tx and every load is made for the handle's
\* networkName.
C15_ConfigFixed == []ConfigConsistent /\ [][ms' = ms]_vars

\* On a live handle one call has failed and returned and a load was made.
C15_Witness ==
    /\ ms = [networkName |-> "test", fake |-> FALSE]
    /\ \E c \in Returned : ret[c] # NoErr /\ tx[c].networkName = "test"
    /\ \E c \in Loaders : loaded[c].result.network = "test"

====
